---- MODULE Spec2Model ----
(***************************************************************************)
(* Model of the dsme disk monitor plugin (src/modules/diskmonitor.c): the  *)
(* module's static state, its D-Bus handlers, its internal DSME message    *)
(* handlers, and the wall clock read through time(0).                      *)
(*                                                                         *)
(* time_t values are 64 bit and would not fit TLC's integers, so a time t  *)
(* is the record [q, r] with t = q * 2^30 + r and 0 <= r < 2^30.  The      *)
(* arithmetic on them below is exact.                                      *)
(***************************************************************************)
EXTENDS Integers, Sequences, FiniteSets, TLC

VARIABLES
    init_done_received,   \* static bool init_done_received
    device_active,        \* static bool device_active
    dbus_methods_bound,   \* static bool dbus_methods_bound
    dbus_signals_bound,   \* static bool dbus_signals_bound
    last_check_time,      \* static time_t last_check_time
    clock,                \* the value time(0) returns now
    loaded,               \* module_init has run
    pending,              \* the wait request held by the heartbeat, <<>> if none
    out,                  \* the calls made by the latest step, in order
    last,                 \* the latest step: operation, argument, state before it
    hb_timed,             \* the heartbeat's [mintime, maxtime] window is modelled
    armed_at,             \* when hb_timed: the time the pending request was sent
    received,             \* the DSM_MSGTYPE_DISK_SPACE messages handled so far
    emitted               \* the disk_space_change_ind signals emitted so far

vars == <<init_done_received, device_active, dbus_methods_bound,
          dbus_signals_bound, last_check_time, clock, loaded, pending,
          out, last, hb_timed, armed_at, received, emitted>>

(* ----------------------------------------------------------------------- *)
(* Bounds                                                                  *)
(* ----------------------------------------------------------------------- *)

\* clock values reach MaxEpoch * 2^30 + the largest offset
MaxEpoch == 4

\* number of DSM_MSGTYPE_DISK_SPACE messages handled in a behaviour
MaxRelay == 3

\* last second of the clock in the timed specification
Horizon == 3600

\* largest magnitude of the integer carried by system_inactivity_ind
MaxInactive == 1

(* ----------------------------------------------------------------------- *)
(* Constants of the program                                                *)
(* ----------------------------------------------------------------------- *)

ACTIVE_CHECK_INTERVAL == 300

IDLE_CHECK_INTERVAL == 1800

MAXTIME_FROM_LAST_CHECK == 900

(* ----------------------------------------------------------------------- *)
(* time_t and int                                                          *)
(* ----------------------------------------------------------------------- *)

Half == 2^30

Offsets == {0, 899, 900, 1800}

Times == {[q |-> e, r |-> o] : e \in 0..MaxEpoch, o \in Offsets}

\* the DSM_MSGTYPE_DISK_SPACE messages the prober may send
ProbeResults ==
    {[mount_path |-> m, blocks_percent_used |-> u] :
        m \in {"/", "/home"}, u \in {0, 100}}

Inactives == (0 - MaxInactive)..MaxInactive

Time0 == [q |-> 0, r |-> 0]

\* a <= b on time_t
TimeLeq(a, b) == a.q < b.q \/ (a.q = b.q /\ a.r <= b.r)

\* a - b on time_t (64 bit: exact for the values of the model)
TimeSub(a, b) ==
    IF a.r >= b.r THEN [q |-> a.q - b.q, r |-> a.r - b.r]
    ELSE [q |-> a.q - b.q - 1, r |-> (a.r - b.r) + Half]

\* t + n on time_t, for 0 <= n < 2^30
TimeAdd(t, n) ==
    IF t.r + n >= Half THEN [q |-> t.q + 1, r |-> (t.r + n) - Half]
    ELSE [q |-> t.q, r |-> t.r + n]

\* d >= n for a time_t difference d and 0 <= n < 2^30
DiffGeq(d, n) == d.q > 0 \/ (d.q = 0 /\ d.r >= n)

\* conversion of a time_t difference to the 32 bit int
\* seconds_from_last_check: the value is reduced modulo 2^32
ToInt(d) ==
    LET k == d.q % 4
    IN  CASE k = 0 -> d.r
          [] k = 1 -> Half + d.r
          [] k = 2 -> (d.r - Half) - Half
          [] k = 3 -> d.r - Half

(* ----------------------------------------------------------------------- *)
(* Calls recorded in out                                                   *)
(* ----------------------------------------------------------------------- *)

CallCheck == <<"check_disk_space", 0, 0>>

CallProbe == <<"check_disk_space_usage", 0, 0>>

CallReply == <<"dsme_dbus_reply_new", 0, 0>>

CallEmit == <<"dsme_dbus_signal_emit", 0, 0>>

IsWait(e) == e[1] = "DSM_MSGTYPE_WAIT"

Count(s, e) == Cardinality({i \in 1..Len(s) : s[i] = e})

Waits(s) == {i \in 1..Len(s) : IsWait(s[i])}

(* ----------------------------------------------------------------------- *)
(* Helpers                                                                 *)
(* ----------------------------------------------------------------------- *)

disk_check_interval(active) ==
    IF active THEN ACTIVE_CHECK_INTERVAL ELSE IDLE_CHECK_INTERVAL

schedule_next_wakeup_double(active) ==
    <<"DSM_MSGTYPE_WAIT", disk_check_interval(active),
      disk_check_interval(active) + disk_check_interval(active)>>

\* the DSM_MSGTYPE_WAIT message broadcast by schedule_next_wakeup
schedule_next_wakeup(active) ==
    <<"DSM_MSGTYPE_WAIT", disk_check_interval(active),
      disk_check_interval(active) + 120>>

check_disk_space_eager(done, lct, now) ==
    IF done THEN [ev |-> <<CallCheck, CallProbe>>, lct |-> now]
    ELSE [ev |-> <<CallCheck>>, lct |-> now]

check_disk_space_nogate(done, lct, now) ==
    [ev |-> <<CallCheck, CallProbe>>, lct |-> now]

\* the calls made by check_disk_space and the new last_check_time
check_disk_space(done, lct, now) ==
    IF done THEN [ev |-> <<CallCheck, CallProbe>>, lct |-> now]
    ELSE [ev |-> <<CallCheck>>, lct |-> lct]

\* the heartbeat keeps the latest wait request of a step
Rearm(pend, ev) ==
    IF Waits(ev) = {} THEN pend
    ELSE LET i == CHOOSE j \in Waits(ev) : \A k \in Waits(ev) : k <= j
         IN  <<ev[i][2], ev[i][3]>>

\* the time the heartbeat received the latest wait request of a step
Stamp(at, ev) ==
    IF hb_timed /\ Waits(ev) # {} THEN clock ELSE at

\* the record of a step: its operation and argument and the state it starts
\* in; probed tells whether the prober was invoked by an earlier step, and
\* tog alternates so that no step leaves the state unchanged
Step(op, arg) ==
    [op |-> op, arg |-> arg, init_done |-> init_done_received,
     active |-> device_active, lct |-> last_check_time, now |-> clock,
     pend |-> pending,
     probed |-> (last.probed \/ Count(out, CallProbe) > 0),
     tog |-> 1 - last.tog]

(* ----------------------------------------------------------------------- *)
(* Initial state                                                           *)
(* ----------------------------------------------------------------------- *)

Init ==
    /\ init_done_received = FALSE
    /\ device_active = FALSE
    /\ dbus_methods_bound = FALSE
    /\ dbus_signals_bound = FALSE
    /\ last_check_time = Time0
    /\ clock \in Times
    /\ loaded = FALSE
    /\ pending = <<>>
    /\ out = <<>>
    /\ last = [op |-> "none", arg |-> 0, init_done |-> FALSE,
               active |-> FALSE, lct |-> Time0, now |-> clock,
               pend |-> <<>>, probed |-> FALSE, tog |-> 0]
    /\ hb_timed = FALSE
    /\ armed_at = Time0
    /\ received = <<>>
    /\ emitted = <<>>

(* ----------------------------------------------------------------------- *)
(* Plugin init                                                             *)
(* ----------------------------------------------------------------------- *)

module_init_noarm ==
    /\ ~loaded
    /\ loaded' = TRUE
    /\ out' = <<>>
    /\ pending' = Rearm(pending, out')
    /\ armed_at' = Stamp(armed_at, out')
    /\ UNCHANGED <<hb_timed, received, emitted>>
    /\ last' = Step("module_init", 0)
    /\ UNCHANGED <<init_done_received, device_active, dbus_methods_bound,
                   dbus_signals_bound, last_check_time, clock>>

module_init ==
    /\ ~loaded
    /\ loaded' = TRUE
    /\ out' = <<schedule_next_wakeup(device_active)>>
    /\ pending' = Rearm(pending, out')
    /\ armed_at' = Stamp(armed_at, out')
    /\ UNCHANGED <<hb_timed, received, emitted>>
    /\ last' = Step("module_init", 0)
    /\ UNCHANGED <<init_done_received, device_active, dbus_methods_bound,
                   dbus_signals_bound, last_check_time, clock>>

(* ----------------------------------------------------------------------- *)
(* D-Bus handlers                                                          *)
(* ----------------------------------------------------------------------- *)

req_check_noreply ==
    /\ loaded
    /\ dbus_methods_bound
    /\ LET chk == check_disk_space(init_done_received, last_check_time, clock)
       IN  /\ last_check_time' = chk.lct
           /\ out' = IF init_done_received THEN chk.ev \o <<CallReply>>
                     ELSE chk.ev
    /\ pending' = Rearm(pending, out')
    /\ armed_at' = Stamp(armed_at, out')
    /\ UNCHANGED <<hb_timed, received, emitted>>
    /\ last' = Step("req_check", 0)
    /\ UNCHANGED <<init_done_received, device_active, dbus_methods_bound,
                   dbus_signals_bound, clock, loaded>>

req_check_rearm ==
    /\ loaded
    /\ dbus_methods_bound
    /\ LET chk == check_disk_space(init_done_received, last_check_time, clock)
       IN  /\ last_check_time' = chk.lct
           /\ out' = chk.ev \o <<schedule_next_wakeup(TRUE), CallReply>>
    /\ pending' = Rearm(pending, out')
    /\ armed_at' = Stamp(armed_at, out')
    /\ UNCHANGED <<hb_timed, received, emitted>>
    /\ last' = Step("req_check", 0)
    /\ UNCHANGED <<init_done_received, device_active, dbus_methods_bound,
                   dbus_signals_bound, clock, loaded>>

req_check ==
    /\ loaded
    /\ dbus_methods_bound
    /\ LET chk == check_disk_space(init_done_received, last_check_time, clock)
       IN  /\ last_check_time' = chk.lct
           /\ out' = chk.ev \o <<CallReply>>
    /\ pending' = Rearm(pending, out')
    /\ armed_at' = Stamp(armed_at, out')
    /\ UNCHANGED <<hb_timed, received, emitted>>
    /\ last' = Step("req_check", 0)
    /\ UNCHANGED <<init_done_received, device_active, dbus_methods_bound,
                   dbus_signals_bound, clock, loaded>>

init_done_ind_probe ==
    /\ loaded
    /\ dbus_signals_bound
    /\ init_done_received' = TRUE
    /\ LET chk == check_disk_space(TRUE, last_check_time, clock)
       IN  /\ last_check_time' = chk.lct
           /\ out' = chk.ev
    /\ pending' = Rearm(pending, out')
    /\ armed_at' = Stamp(armed_at, out')
    /\ UNCHANGED <<hb_timed, received, emitted>>
    /\ last' = Step("init_done_ind", 0)
    /\ UNCHANGED <<device_active, dbus_methods_bound, dbus_signals_bound,
                   clock, loaded>>

init_done_ind ==
    /\ loaded
    /\ dbus_signals_bound
    /\ init_done_received' = TRUE
    /\ out' = <<>>
    /\ pending' = Rearm(pending, out')
    /\ armed_at' = Stamp(armed_at, out')
    /\ UNCHANGED <<hb_timed, received, emitted>>
    /\ last' = Step("init_done_ind", 0)
    /\ UNCHANGED <<device_active, dbus_methods_bound, dbus_signals_bound,
                   last_check_time, clock, loaded>>

activity_transition_noprobe(new_device_active_state, stale) ==
    /\ device_active' = new_device_active_state
    /\ last_check_time' = last_check_time
    /\ out' = <<schedule_next_wakeup(new_device_active_state)>>

activity_transition_late(new_device_active_state, stale) ==
    LET chk == IF new_device_active_state /\ stale
               THEN check_disk_space(init_done_received, last_check_time, clock)
               ELSE [ev |-> <<>>, lct |-> last_check_time]
    IN  /\ device_active' = new_device_active_state
        /\ last_check_time' = chk.lct
        /\ out' = <<schedule_next_wakeup(new_device_active_state)>> \o chk.ev

activity_transition_anydir(new_device_active_state, stale) ==
    LET chk == IF stale
               THEN check_disk_space(init_done_received, last_check_time, clock)
               ELSE [ev |-> <<>>, lct |-> last_check_time]
    IN  /\ device_active' = new_device_active_state
        /\ last_check_time' = chk.lct
        /\ out' = chk.ev \o <<schedule_next_wakeup(new_device_active_state)>>

activity_transition_old(new_device_active_state, stale) ==
    LET chk == IF new_device_active_state /\ stale
               THEN check_disk_space(init_done_received, last_check_time, clock)
               ELSE [ev |-> <<>>, lct |-> last_check_time]
    IN  /\ device_active' = new_device_active_state
        /\ last_check_time' = chk.lct
        /\ out' = chk.ev \o <<schedule_next_wakeup(device_active)>>

\* the body of mce_inactivity_sig after the test for an unchanged state;
\* stale is seconds_from_last_check >= MAXTIME_FROM_LAST_CHECK
activity_transition(new_device_active_state, stale) ==
    LET chk == IF new_device_active_state /\ stale
               THEN check_disk_space(init_done_received, last_check_time, clock)
               ELSE [ev |-> <<>>, lct |-> last_check_time]
    IN  /\ device_active' = new_device_active_state
        /\ last_check_time' = chk.lct
        /\ out' = chk.ev \o <<schedule_next_wakeup(new_device_active_state)>>

mce_inactivity_sig_noinvert(inactive) ==
    /\ loaded
    /\ dbus_signals_bound
    /\ LET new_device_active_state == (inactive # 0)
           now == clock
           seconds_from_last_check == ToInt(TimeSub(now, last_check_time))
       IN  IF new_device_active_state = device_active
           THEN /\ out' = <<>>
                /\ UNCHANGED <<device_active, last_check_time>>
           ELSE activity_transition(new_device_active_state,
                    seconds_from_last_check >= MAXTIME_FROM_LAST_CHECK)
    /\ pending' = Rearm(pending, out')
    /\ armed_at' = Stamp(armed_at, out')
    /\ UNCHANGED <<hb_timed, received, emitted>>
    /\ last' = Step("mce_inactivity_sig", inactive)
    /\ UNCHANGED <<init_done_received, dbus_methods_bound,
                   dbus_signals_bound, clock, loaded>>

mce_inactivity_sig_nodedup(inactive) ==
    /\ loaded
    /\ dbus_signals_bound
    /\ LET new_device_active_state == (inactive = 0)
           now == clock
           seconds_from_last_check == ToInt(TimeSub(now, last_check_time))
       IN  activity_transition(new_device_active_state,
               seconds_from_last_check >= MAXTIME_FROM_LAST_CHECK)
    /\ pending' = Rearm(pending, out')
    /\ armed_at' = Stamp(armed_at, out')
    /\ UNCHANGED <<hb_timed, received, emitted>>
    /\ last' = Step("mce_inactivity_sig", inactive)
    /\ UNCHANGED <<init_done_received, dbus_methods_bound,
                   dbus_signals_bound, clock, loaded>>

mce_inactivity_sig(inactive) ==
    /\ loaded
    /\ dbus_signals_bound
    /\ LET new_device_active_state == (inactive = 0)
           now == clock
           seconds_from_last_check == ToInt(TimeSub(now, last_check_time))
       IN  IF new_device_active_state = device_active
           THEN /\ out' = <<>>
                /\ UNCHANGED <<device_active, last_check_time>>
           ELSE activity_transition(new_device_active_state,
                    seconds_from_last_check >= MAXTIME_FROM_LAST_CHECK)
    /\ pending' = Rearm(pending, out')
    /\ armed_at' = Stamp(armed_at, out')
    /\ UNCHANGED <<hb_timed, received, emitted>>
    /\ last' = Step("mce_inactivity_sig", inactive)
    /\ UNCHANGED <<init_done_received, dbus_methods_bound,
                   dbus_signals_bound, clock, loaded>>

(* ----------------------------------------------------------------------- *)
(* Internal DSME event handling                                            *)
(* ----------------------------------------------------------------------- *)

DSM_MSGTYPE_WAKEUP_norearm ==
    /\ loaded
    /\ pending # <<>>
    /\ LET chk == check_disk_space(init_done_received, last_check_time, clock)
       IN  /\ last_check_time' = chk.lct
           /\ out' = chk.ev
    /\ pending' = Rearm(<<>>, out')
    /\ armed_at' = Stamp(armed_at, out')
    /\ UNCHANGED <<hb_timed, received, emitted>>
    /\ last' = Step("DSM_MSGTYPE_WAKEUP", 0)
    /\ UNCHANGED <<init_done_received, device_active, dbus_methods_bound,
                   dbus_signals_bound, clock, loaded>>

DSM_MSGTYPE_WAKEUP_gated ==
    /\ loaded
    /\ pending # <<>>
    /\ LET chk == check_disk_space(init_done_received, last_check_time, clock)
       IN  /\ last_check_time' = chk.lct
           /\ out' = IF init_done_received
                     THEN chk.ev \o <<schedule_next_wakeup(device_active)>>
                     ELSE chk.ev
    /\ pending' = Rearm(<<>>, out')
    /\ armed_at' = Stamp(armed_at, out')
    /\ UNCHANGED <<hb_timed, received, emitted>>
    /\ last' = Step("DSM_MSGTYPE_WAKEUP", 0)
    /\ UNCHANGED <<init_done_received, device_active, dbus_methods_bound,
                   dbus_signals_bound, clock, loaded>>

DSM_MSGTYPE_WAKEUP ==
    /\ loaded
    /\ pending # <<>>
    /\ LET chk == check_disk_space(init_done_received, last_check_time, clock)
       IN  /\ last_check_time' = chk.lct
           /\ out' = chk.ev \o <<schedule_next_wakeup(device_active)>>
    /\ pending' = Rearm(<<>>, out')
    /\ armed_at' = Stamp(armed_at, out')
    /\ UNCHANGED <<hb_timed, received, emitted>>
    /\ last' = Step("DSM_MSGTYPE_WAKEUP", 0)
    /\ UNCHANGED <<init_done_received, device_active, dbus_methods_bound,
                   dbus_signals_bound, clock, loaded>>

DSM_MSGTYPE_DBUS_CONNECT ==
    /\ loaded
    /\ dbus_methods_bound' \in {dbus_methods_bound, TRUE}
    /\ dbus_signals_bound' \in {dbus_signals_bound, TRUE}
    /\ out' = <<>>
    /\ pending' = Rearm(pending, out')
    /\ armed_at' = Stamp(armed_at, out')
    /\ UNCHANGED <<hb_timed, received, emitted>>
    /\ last' = Step("DSM_MSGTYPE_DBUS_CONNECT", 0)
    /\ UNCHANGED <<init_done_received, device_active, last_check_time,
                   clock, loaded>>

DSM_MSGTYPE_DBUS_DISCONNECT_reset ==
    /\ loaded
    /\ dbus_methods_bound' = FALSE
    /\ dbus_signals_bound' = FALSE
    /\ init_done_received' = FALSE
    /\ out' = <<>>
    /\ pending' = Rearm(pending, out')
    /\ armed_at' = Stamp(armed_at, out')
    /\ UNCHANGED <<hb_timed, received, emitted>>
    /\ last' = Step("DSM_MSGTYPE_DBUS_DISCONNECT", 0)
    /\ UNCHANGED <<device_active, last_check_time, clock, loaded>>

DSM_MSGTYPE_DBUS_DISCONNECT ==
    /\ loaded
    /\ dbus_methods_bound' = FALSE
    /\ dbus_signals_bound' = FALSE
    /\ out' = <<>>
    /\ pending' = Rearm(pending, out')
    /\ armed_at' = Stamp(armed_at, out')
    /\ UNCHANGED <<hb_timed, received, emitted>>
    /\ last' = Step("DSM_MSGTYPE_DBUS_DISCONNECT", 0)
    /\ UNCHANGED <<init_done_received, device_active, last_check_time,
                   clock, loaded>>

DSM_MSGTYPE_DISK_SPACE_gated(msg) ==
    /\ loaded
    /\ Len(received) < MaxRelay
    /\ received' = Append(received, msg)
    /\ LET mount_path == msg.mount_path
           sig == <<mount_path, msg.blocks_percent_used>>
       IN  IF init_done_received
           THEN /\ emitted' = Append(emitted, sig)
                /\ out' = <<CallEmit>>
           ELSE /\ emitted' = emitted
                /\ out' = <<>>
    /\ pending' = Rearm(pending, out')
    /\ armed_at' = Stamp(armed_at, out')
    /\ last' = Step("DSM_MSGTYPE_DISK_SPACE", 0)
    /\ UNCHANGED <<init_done_received, device_active, dbus_methods_bound,
                   dbus_signals_bound, last_check_time, clock, loaded,
                   hb_timed>>

\* the handler builds the signal disk_space_change_ind from the message's
\* mount path and blocks_percent_used and emits it
DSM_MSGTYPE_DISK_SPACE(msg) ==
    /\ loaded
    /\ Len(received) < MaxRelay
    /\ received' = Append(received, msg)
    /\ LET mount_path == msg.mount_path
           sig == <<mount_path, msg.blocks_percent_used>>
       IN  /\ emitted' = Append(emitted, sig)
           /\ out' = <<CallEmit>>
    /\ pending' = Rearm(pending, out')
    /\ armed_at' = Stamp(armed_at, out')
    /\ last' = Step("DSM_MSGTYPE_DISK_SPACE", 0)
    /\ UNCHANGED <<init_done_received, device_active, dbus_methods_bound,
                   dbus_signals_bound, last_check_time, clock, loaded,
                   hb_timed>>

(* ----------------------------------------------------------------------- *)
(* The wall clock                                                          *)
(* ----------------------------------------------------------------------- *)

\* time passes
Tick ==
    /\ \E t \in Times : /\ t # clock
                        /\ TimeLeq(clock, t)
                        /\ clock' = t
    /\ out' = <<>>
    /\ last' = Step("Tick", 0)
    /\ UNCHANGED <<init_done_received, device_active, dbus_methods_bound,
                   dbus_signals_bound, last_check_time, loaded, pending,
                   hb_timed, armed_at, received, emitted>>

\* the system time is set back (settimeofday, time synchronisation)
ClockSetBack ==
    /\ \E t \in Times : /\ t # clock
                        /\ TimeLeq(t, clock)
                        /\ clock' = t
    /\ out' = <<>>
    /\ last' = Step("ClockSetBack", 0)
    /\ UNCHANGED <<init_done_received, device_active, dbus_methods_bound,
                   dbus_signals_bound, last_check_time, loaded, pending,
                   hb_timed, armed_at, received, emitted>>

Next ==
    \/ module_init
    \/ req_check
    \/ init_done_ind
    \/ \E inactive \in Inactives : mce_inactivity_sig(inactive)
    \/ DSM_MSGTYPE_WAKEUP
    \/ DSM_MSGTYPE_DBUS_CONNECT
    \/ DSM_MSGTYPE_DBUS_DISCONNECT
    \/ Tick
    \/ ClockSetBack

Spec == Init /\ [][Next]_vars

\* the heartbeat delivers the wakeup of the pending request: a wakeup that
\* stays pending is eventually handled
SpecLive == Init /\ [][Next]_vars /\ WF_vars(DSM_MSGTYPE_WAKEUP)

(* ----------------------------------------------------------------------- *)
(* The module with the result relay, at one instant of the clock: the      *)
(* relay handler reads and writes none of the scheduler's variables, and   *)
(* the histories received and emitted are kept only here.                  *)
(* ----------------------------------------------------------------------- *)

InitRelay ==
    /\ Init
    /\ clock = [q |-> 0, r |-> 1800]

NextRelay ==
    \/ module_init
    \/ req_check
    \/ init_done_ind
    \/ \E inactive \in Inactives : mce_inactivity_sig(inactive)
    \/ DSM_MSGTYPE_WAKEUP
    \/ DSM_MSGTYPE_DBUS_CONNECT
    \/ DSM_MSGTYPE_DBUS_DISCONNECT
    \/ \E msg \in ProbeResults : DSM_MSGTYPE_DISK_SPACE(msg)

SpecRelay == InitRelay /\ [][NextRelay]_vars

(* ----------------------------------------------------------------------- *)
(* The module with a clock that never goes back and a heartbeat that       *)
(* delivers the wakeup of the pending request no earlier than mintime and  *)
(* no later than maxtime seconds after the request was sent.               *)
(* ----------------------------------------------------------------------- *)

\* the last second at which an Idle->Active transition does not probe, the
\* latest wakeup of the request it sends, and the latest wakeup of an idle
\* request sent at that second
LatestInstants ==
    LET a == MAXTIME_FROM_LAST_CHECK - 1
        b == a + (ACTIVE_CHECK_INTERVAL + 120)
        c == b + (IDLE_CHECK_INTERVAL + 120)
    IN  {a, b, c}

\* the instants the timed clock takes: every five minutes, and the instants
\* of the longest schedule
TimedTimes ==
    {[q |-> 0, r |-> o] :
        o \in {t \in 0..Horizon : t % 300 = 0 \/ t \in LatestInstants}}

InitTimed ==
    /\ init_done_received = FALSE
    /\ device_active = FALSE
    /\ dbus_methods_bound = FALSE
    /\ dbus_signals_bound = FALSE
    /\ last_check_time = Time0
    /\ clock = Time0
    /\ loaded = FALSE
    /\ pending = <<>>
    /\ out = <<>>
    /\ last = [op |-> "none", arg |-> 0, init_done |-> FALSE,
               active |-> FALSE, lct |-> Time0, now |-> clock,
               pend |-> <<>>, probed |-> FALSE, tog |-> 0]
    /\ hb_timed = TRUE
    /\ armed_at = Time0
    /\ received = <<>>
    /\ emitted = <<>>

\* time passes, but not beyond the latest time of the pending wakeup
TimedTick ==
    /\ \E t \in TimedTimes :
           /\ t # clock
           /\ TimeLeq(clock, t)
           /\ pending # <<>> => TimeLeq(t, TimeAdd(armed_at, pending[2]))
           /\ clock' = t
    /\ out' = <<>>
    /\ last' = Step("Tick", 0)
    /\ UNCHANGED <<init_done_received, device_active, dbus_methods_bound,
                   dbus_signals_bound, last_check_time, loaded, pending,
                   hb_timed, armed_at, received, emitted>>

\* the wakeup is delivered once mintime has passed
TimedWakeup ==
    /\ pending # <<>>
    /\ TimeLeq(TimeAdd(armed_at, pending[1]), clock)
    /\ DSM_MSGTYPE_WAKEUP

NextTimed ==
    \/ module_init
    \/ req_check
    \/ init_done_ind
    \/ \E inactive \in Inactives : mce_inactivity_sig(inactive)
    \/ TimedWakeup
    \/ DSM_MSGTYPE_DBUS_CONNECT
    \/ DSM_MSGTYPE_DBUS_DISCONNECT
    \/ TimedTick

SpecTimed == InitTimed /\ [][NextTimed]_vars

(* ----------------------------------------------------------------------- *)
(* Properties                                                              *)
(* ----------------------------------------------------------------------- *)

\* the latest step was a system_inactivity_ind that changed the state
IdleToActive ==
    last.op = "mce_inactivity_sig" /\ last.arg = 0 /\ ~last.active

ActiveToIdle ==
    last.op = "mce_inactivity_sig" /\ last.arg # 0 /\ last.active

\* now - lastCheckTime >= 900 at the latest step, as a time difference
Elapsed900 ==
    DiffGeq(TimeSub(last.now, last.lct), MAXTIME_FROM_LAST_CHECK)

\* the same test on the int seconds_from_last_check
Elapsed900Int ==
    ToInt(TimeSub(last.now, last.lct)) >= MAXTIME_FROM_LAST_CHECK

\* every probe of s comes before every wait request of s
ProbesBeforeWaits(s) ==
    \A i \in 1..Len(s) : \A j \in Waits(s) : s[i] = CallProbe => i < j

\* C1: the prober is invoked only while init_done_received is true: a step
\* that starts before base_boot_done invokes it zero times, and a step that
\* starts after it invokes it once per call of check_disk_space.
C1_BootGate ==
    /\ Count(out, CallProbe) > 0 => last.init_done /\ init_done_received
    /\ ~last.init_done => Count(out, CallProbe) = 0
    /\ last.init_done => Count(out, CallProbe) = Count(out, CallCheck)

C1_Witness ==
    /\ last.op = "DSM_MSGTYPE_WAKEUP"
    /\ last.init_done
    /\ Count(out, CallProbe) = 1

\* C2: a system_inactivity_ind whose value equals the current device_active
\* changes nothing: device_active, init_done_received and last_check_time
\* keep their values, no wait request is sent, no probe is attempted and
\* the pending wakeup is the same.
C2_Dedup ==
    (last.op = "mce_inactivity_sig" /\ (last.arg = 0) = last.active)
    => /\ device_active = last.active
       /\ init_done_received = last.init_done
       /\ last_check_time = last.lct
       /\ pending = last.pend
       /\ out = <<>>

C2_Witness ==
    /\ last.op = "mce_inactivity_sig"
    /\ last.arg = 0
    /\ last.active
    /\ last.init_done
    /\ Elapsed900Int
    /\ out = <<>>

\* C3 as claimed: on an Idle->Active transition, now - lastCheckTime >= 900
\* gives exactly one probe, before the wait request, now - lastCheckTime
\* < 900 gives none, and the wait request is sent in both cases.
C3_Original ==
    IdleToActive
    => /\ Elapsed900 => Count(out, CallProbe) = 1 /\ ProbesBeforeWaits(out)
       /\ ~Elapsed900 => Count(out, CallProbe) = 0
       /\ Cardinality(Waits(out)) = 1

\* C3 as amended: on an Idle->Active transition check_disk_space is called
\* exactly when the int seconds_from_last_check (now - last_check_time
\* reduced to 32 bits) is >= 900, and the call comes before the wait
\* request; it invokes the prober exactly once if init_done_received is
\* true and not at all otherwise.  Exactly one wait request is sent in
\* every case, as the last call of the handler.
C3_Amended ==
    IdleToActive
    => /\ Count(out, CallCheck) = (IF Elapsed900Int THEN 1 ELSE 0)
       /\ Count(out, CallProbe) =
              (IF Elapsed900Int /\ last.init_done THEN 1 ELSE 0)
       /\ ProbesBeforeWaits(out)
       /\ Cardinality(Waits(out)) = 1
       /\ IsWait(out[Len(out)])

C3_Witness ==
    /\ IdleToActive
    /\ last.init_done
    /\ Elapsed900Int
    /\ out = <<CallCheck, CallProbe, <<"DSM_MSGTYPE_WAIT", 300, 420>> >>

\* C4: an Active->Idle transition attempts no probe and leaves
\* last_check_time alone, whatever the elapsed time and whether or not boot
\* is done; it clears device_active and sends the wait request {1800, 1920}.
C4_ActiveToIdle ==
    ActiveToIdle
    => /\ out = << <<"DSM_MSGTYPE_WAIT", 1800, 1920>> >>
       /\ last_check_time = last.lct
       /\ device_active = FALSE

C4_Witness ==
    /\ ActiveToIdle
    /\ last.init_done
    /\ Elapsed900Int
    /\ Elapsed900
    /\ ~device_active

\* C5: every wakeup sends exactly one wait request, as the last call of the
\* handler and after the probe attempt, whether or not the boot gate
\* suppressed the probe; with boot done and the device idle it probes once,
\* sets last_check_time to the time of the wakeup and sends {1800, 1920}.
C5_Wakeup ==
    last.op = "DSM_MSGTYPE_WAKEUP"
    => /\ Cardinality(Waits(out)) = 1
       /\ IsWait(out[Len(out)])
       /\ out[1] = CallCheck
       /\ Count(out, CallCheck) = 1
       /\ (last.init_done /\ ~last.active)
          => /\ Count(out, CallProbe) = 1
             /\ last_check_time = last.now
             /\ out[Len(out)] = <<"DSM_MSGTYPE_WAIT", 1800, 1920>>

C5_Witness ==
    /\ last.op = "DSM_MSGTYPE_WAKEUP"
    /\ last.init_done
    /\ ~last.active
    /\ last.lct # last.now
    /\ last_check_time = last.now

\* C6: every wait request sent has maxtime = mintime + 120.
C6_Slack ==
    \A i \in Waits(out) : out[i][3] = out[i][2] + 120

C6_Witness ==
    /\ last.op = "mce_inactivity_sig"
    /\ \E i \in Waits(out) : out[i][2] = 300 /\ out[i][3] = 420

\* C7: every wait request sent has mintime 300 if device_active is true
\* when it is sent and 1800 otherwise; a request sent by an activity
\* transition uses the interval of the state entered.
C7_Interval ==
    \A i \in Waits(out) :
        out[i][2] = (IF device_active THEN 300 ELSE 1800)

C7_Witness ==
    /\ IdleToActive
    /\ device_active
    /\ \E i \in Waits(out) : out[i][2] = 300

\* C8: a check request is answered with exactly one reply, made after the
\* probe attempt, in every state; before boot is done the reply is still
\* made and the prober is not invoked.
C8_Reply ==
    last.op = "req_check"
    => /\ Count(out, CallReply) = 1
       /\ Count(out, CallCheck) = 1
       /\ out[1] = CallCheck
       /\ out[Len(out)] = CallReply
       /\ ~last.init_done => Count(out, CallProbe) = 0

C8_Witness ==
    /\ last.op = "req_check"
    /\ ~last.init_done
    /\ out = <<CallCheck, CallReply>>

\* C9: a check request sends no wait request and leaves device_active and
\* init_done_received alone; the wakeup pending before it is the one
\* pending after it.
C9_NoRearm ==
    last.op = "req_check"
    => /\ Waits(out) = {}
       /\ device_active = last.active
       /\ init_done_received = last.init_done
       /\ pending = last.pend

C9_Witness ==
    /\ last.op = "req_check"
    /\ last.init_done
    /\ last.active
    /\ pending = <<300, 420>>

\* C10: last_check_time never decreases: its value after a step is greater
\* than or equal to its value before the step.
C10_Monotonic ==
    TimeLeq(last.lct, last_check_time)

\* C11: init_done_received is one-way: false initially, true after any
\* base_boot_done, set by no other step, and true after every step that
\* starts with it true.
C11_OneWay ==
    /\ last.op = "none" => ~init_done_received
    /\ last.op = "init_done_ind" => init_done_received
    /\ (init_done_received /\ ~last.init_done) => last.op = "init_done_ind"
    /\ last.init_done => init_done_received

C11_Witness ==
    /\ last.op = "DSM_MSGTYPE_DBUS_DISCONNECT"
    /\ last.init_done
    /\ init_done_received

\* C12: base_boot_done attempts no probe and sends no wait request, leaves
\* device_active, last_check_time and the pending wakeup alone, and a second
\* base_boot_done leaves init_done_received as the first one set it.
C12_BootDone ==
    last.op = "init_done_ind"
    => /\ out = <<>>
       /\ device_active = last.active
       /\ last_check_time = last.lct
       /\ pending = last.pend
       /\ init_done_received
       /\ last.init_done => init_done_received = last.init_done

C12_Witness ==
    /\ last.op = "init_done_ind"
    /\ last.init_done
    /\ last.probed
    /\ out = <<>>

\* C14: after system_inactivity_ind carrying the integer v, device_active
\* is (v = 0), whether the signal changed the state or not.
C14_Decode ==
    last.op = "mce_inactivity_sig" => device_active = (last.arg = 0)

C14_Witness ==
    /\ last.op = "mce_inactivity_sig"
    /\ last.arg < 0
    /\ last.active
    /\ ~device_active

\* C15: with boot done and no probe ever triggered (last_check_time still
\* 0), an Idle->Active transition triggers a probe whatever the clock is.
C15_NeverChecked ==
    (IdleToActive /\ last.init_done /\ ~last.probed /\ last.lct = Time0)
    => Count(out, CallProbe) = 1

\* C16: a step that invokes the prober sets last_check_time to the time of
\* the step, a step that does not (the boot gate suppressed the attempt, or
\* there was none) leaves it alone, and last_check_time is 0 as long as
\* init_done_received is false.
C16_LastCheck ==
    /\ Count(out, CallProbe) > 0 => last_check_time = last.now
    /\ Count(out, CallProbe) = 0 => last_check_time = last.lct
    /\ ~init_done_received => last_check_time = Time0

C16_Witness ==
    /\ last.op = "DSM_MSGTYPE_WAKEUP"
    /\ ~last.init_done
    /\ last.now # Time0
    /\ out[1] = CallCheck
    /\ last_check_time = Time0

\* C17: module_init sends the wait request {1800, 1920}, every wakeup and
\* every activity transition sends a wait request, and, the heartbeat
\* keeping the latest request, a wakeup is pending in every state from
\* module_init on (and none before).
C17_Armed ==
    /\ last.op = "module_init"
       => out = << <<"DSM_MSGTYPE_WAIT", 1800, 1920>> >>
    /\ last.op = "DSM_MSGTYPE_WAKEUP" => Cardinality(Waits(out)) = 1
    /\ (IdleToActive \/ ActiveToIdle) => Cardinality(Waits(out)) = 1
    /\ loaded => pending # <<>>
    /\ ~loaded => pending = <<>>

C17_Witness ==
    /\ last.op = "DSM_MSGTYPE_WAKEUP"
    /\ last.pend = <<300, 420>>
    /\ pending = <<300, 420>>
    /\ loaded

\* C13: the disk_space_change_ind signals emitted are, one for one and in
\* the same order, the DSM_MSGTYPE_DISK_SPACE messages handled, each with
\* the message's mount path and percentage unmodified, in every state of
\* init_done_received and device_active; a handled message makes exactly
\* one emission and touches nothing of the scheduler.
C13_Relay ==
    /\ Len(emitted) = Len(received)
    /\ \A i \in 1..Len(received) :
           emitted[i] = <<received[i].mount_path,
                          received[i].blocks_percent_used>>
    /\ last.op = "DSM_MSGTYPE_DISK_SPACE"
       => /\ out = <<CallEmit>>
          /\ init_done_received = last.init_done
          /\ device_active = last.active
          /\ last_check_time = last.lct
          /\ pending = last.pend

C13_Witness ==
    /\ last.op = "DSM_MSGTYPE_DISK_SPACE"
    /\ ~init_done_received
    /\ Len(emitted) = 2
    /\ emitted[1] = <<"/", 100>>
    /\ emitted[2] = <<"/home", 0>>

\* the latest step was a wakeup that invoked the prober and re-armed
WakeupProbed ==
    /\ last.op = "DSM_MSGTYPE_WAKEUP"
    /\ Count(out, CallProbe) = 1
    /\ pending # <<>>

\* the latest step was a wakeup that re-armed without invoking the prober
WakeupSuppressed ==
    /\ last.op = "DSM_MSGTYPE_WAKEUP"
    /\ Count(out, CallProbe) = 0
    /\ pending # <<>>

\* C18: with pending wakeups eventually delivered, once init_done_received
\* is true a wakeup that probes always follows, so probes are triggered
\* infinitely often; and as long as base_boot_done has not been received a
\* wakeup that re-arms without probing always follows, and no step probes.
C18_Live ==
    /\ (loaded /\ init_done_received) ~> WakeupProbed
    /\ (loaded /\ ~init_done_received)
           ~> (init_done_received \/ WakeupSuppressed)
    /\ [](~init_done_received => Count(out, CallProbe) = 0)

C18_Witness ==
    /\ WakeupProbed
    /\ last.probed
    /\ last.op = "DSM_MSGTYPE_WAKEUP"
    /\ last.lct # last_check_time

\* the prober has been invoked, by the latest step or an earlier one
Probed == last.probed \/ Count(out, CallProbe) > 0

\* now - last_check_time
Age == TimeSub(clock, last_check_time)

\* C19: with a clock that never goes back and wakeups delivered within
\* [mintime, maxtime] of the latest request, once the prober has been
\* invoked the age of the last check stays below 900 + 420 + 1920 seconds.
C19_Age ==
    Probed => ~DiffGeq(Age, MAXTIME_FROM_LAST_CHECK
                            + (ACTIVE_CHECK_INTERVAL + 120)
                            + (IDLE_CHECK_INTERVAL + 120))

C19_Witness ==
    /\ Probed
    /\ init_done_received
    /\ Age = [q |-> 0, r |-> 3239]

====
